---- MODULE Spec2Model ----
(***************************************************************************)
(* A state-machine model of kitti_semseg.py: the entry point, train(),     *)
(* evaluate() and vis().  Strings that the program formats or parses       *)
(* (checkpoint file names, the --pretrain path) are sequences of           *)
(* one-character strings, so that formatting and parsing are computed.     *)
(* Metrics (accuracy, mean IoU) are integers in units of 1e-6; learning    *)
(* rates are integers in units of 1e-8.  An optional value (None or a      *)
(* value) is a sequence of length 0 or 1.                                  *)
(***************************************************************************)
EXTENDS Integers, Sequences, FiniteSets, TLC

\* ------------------------------------------------------------------ bounds

\* the largest --epoch of the exhaustively enumerated short runs
ShortEpoch == 3
\* --epoch of the long runs (one StepLR halving needs StepSize scheduler steps)
LongEpoch == 21
\* the largest len(dataloader): training batches per epoch
MaxBatches == 2
\* a resume epoch that needs more than four digits
BigEpoch == 12345
\* the largest len(test_data) that vis() walks over
MaxFrames == 1

\* ------------------------------------------------------- program constants

\* LEARNING_RATE_CLIP = 1e-5, in units of 1e-8
LEARNING_RATE_CLIP == 1000
\* StepLR(optimizer, step_size=20, gamma=0.5)
StepSize == 20
\* torch.optim.SGD(model.parameters(), lr=0.01, ...), in units of 1e-8
SgdLr == 1000000
\* --learning_rate default 0.001, in units of 1e-8
DefaultLearningRate == 100000

\* ----------------------------------------------------------------- strings

Str_kitti_semseg ==
    <<"k", "i", "t", "t", "i", "_", "s", "e", "m", "s", "e", "g">>
Str_pth ==
    <<".", "p", "t", "h">>
Str_experiment_kitti_semseg ==
    <<"e", "x", "p", "e", "r", "i", "m", "e", "n", "t", "/", "k", "i", "t", "t",
      "i", "_", "s", "e", "m", "s", "e", "g", "/">>
Str_pointnet ==
    <<"p", "o", "i", "n", "t", "n", "e", "t">>
Str_pointnet2 ==
    <<"p", "o", "i", "n", "t", "n", "e", "t", "2">>
\* a model name that contains '-'
Str_pointnet2_msg ==
    <<"p", "o", "i", "n", "t", "n", "e", "t", "2", "-", "m", "s", "g">>
\* a path whose last '-'-separated field is not a number
Str_model_pth ==
    <<"m", "o", "d", "e", "l", ".", "p", "t", "h">>
\* the path vis() hard-codes
VisPretrain ==
    <<"e", "x", "p", "e", "r", "i", "m", "e", "n", "t", "/", "k", "i", "t", "t",
      "i", "_", "s", "e", "m", "s", "e", "g", "/", "p", "o", "i", "n", "t", "n",
      "e", "t", "2", "/", "k", "i", "t", "t", "i", "_", "s", "e", "m", "s", "e",
      "g", "-", "p", "o", "i", "n", "t", "n", "e", "t", "2", "-", "0", ".", "5",
      "9", "9", "5", "7", "-", "0", "0", "2", "3", ".", "p", "t", "h">>

Digits == <<"0", "1", "2", "3", "4", "5", "6", "7", "8", "9">>

DigitChar(d) == Digits[d + 1]

IsDigit(c) == \E d \in 0..9 : Digits[d + 1] = c

DigitValue(c) == CHOOSE d \in 0..9 : Digits[d + 1] = c

Max(a, b) == IF a >= b THEN a ELSE b

\* '%d' % n for n >= 0
RECURSIVE FormatInt(_)
FormatInt(n) ==
    IF n < 10 THEN <<DigitChar(n)>>
    ELSE FormatInt(n \div 10) \o <<DigitChar(n % 10)>>

\* s left-padded with '0' to at least w characters
RECURSIVE ZeroPad(_, _)
ZeroPad(s, w) == IF Len(s) >= w THEN s ELSE ZeroPad(<<"0">> \o s, w)

\* '%04d' % n for n >= 0
Format04d(n) == ZeroPad(FormatInt(n), 4)

\* '%.5f' % x for a metric x given in units of 1e-6 (0 <= x): rounded to the
\* nearest 1e-5 (the metric values used here are never exactly half-way)
Format5f(x) ==
    LET r == (x + 5) \div 10
    IN  FormatInt(r \div 100000) \o <<".">> \o ZeroPad(FormatInt(r % 100000), 5)

\* s.split(sep)[-1]: what follows the last sep, all of s when it holds none
SplitLast(s, sep) ==
    IF \E k \in 1..Len(s) : s[k] = sep
    THEN LET k == CHOOSE j \in 1..Len(s) :
                     s[j] = sep /\ \A m \in (j + 1)..Len(s) : s[m] # sep
         IN  SubSeq(s, k + 1, Len(s))
    ELSE s

\* s[:-4]
DropLast4(s) == SubSeq(s, 1, Len(s) - 4)

\* int(s) for a string of decimal digits
RECURSIVE DigitsValue(_)
DigitsValue(s) ==
    IF Len(s) = 0 THEN 0
    ELSE 10 * DigitsValue(SubSeq(s, 1, Len(s) - 1)) + DigitValue(s[Len(s)])

\* int(s): <<n>> when s is a non-empty string of digits, <<>> for ValueError
ParseInt(s) ==
    IF Len(s) > 0 /\ \A k \in 1..Len(s) : IsDigit(s[k])
    THEN <<DigitsValue(s)>>
    ELSE <<>>

\* ------------------------------------------------------- names and paths

\* 'experiment/kitti_semseg/%s/' % (args.model_name)
CheckpointsDir(model_name) ==
    Str_experiment_kitti_semseg \o model_name \o <<"/">>

\* os.path.join(d, f) for a relative f
PathJoin(d, f) ==
    IF Len(d) = 0 \/ d[Len(d)] = "/" THEN d \o f ELSE d \o <<"/">> \o f

\* a variant of FnPth: the name carries no epoch field
FnPthNoEpoch(model_name, meaniou, e) ==
    Str_kitti_semseg \o <<"-">> \o model_name \o <<"-">> \o Format5f(meaniou)
        \o Str_pth

\* fn_pth = 'kitti_semseg-%s-%.5f-%04d.pth' % (args.model_name, best_meaniou, epoch)
FnPth(model_name, meaniou, e) ==
    Str_kitti_semseg \o <<"-">> \o model_name \o <<"-">> \o Format5f(meaniou)
        \o <<"-">> \o Format04d(e) \o Str_pth

\* a variant of ParseInitEpoch: [:-3] for [:-4]
ParseInitEpochDrop3(path) ==
    ParseInt(SplitLast(SubSeq(path, 1, Len(path) - 3), "-"))

\* int(args.pretrain[:-4].split('-')[-1]): <<n>>, or <<>> for ValueError
ParseInitEpoch(path) == ParseInt(SplitLast(DropLast4(path), "-"))

\* ------------------------------------------------------------ input sets

\* values test_semseg can report as np.mean(cat_mean_iou), in units of 1e-6;
\* the two positive ones differ and both print as 0.59957
MeanIouValues == {0, 599566, 599572}

\* values test_semseg can report as test_metrics['accuracy'], in units of 1e-6
AccuracyValues == {700000, 800000}

\* the mean IoU in the name of the checkpoints given to --pretrain
PretrainMeanIou == 599572

ModelNames == {Str_pointnet, Str_pointnet2_msg}

\* --pretrain values: absent, a checkpoint train() wrote at epoch e, another path
Pretrains(model_name) ==
    {<<>>, <<Str_model_pth>>}
    \cup { <<PathJoin(CheckpointsDir(model_name),
                      FnPth(model_name, PretrainMeanIou, e))>> :
           e \in {ShortEpoch - 1, BigEpoch} }

\* the command lines of the short runs
ShortArgv ==
    { a \in [mode : {<<>>, <<"train">>, <<"eval">>, <<"vis">>, <<"test">>},
             model_name : ModelNames,
             epoch : -1..ShortEpoch,
             pretrain : UNION {Pretrains(m) : m \in ModelNames},
             learning_rate : {DefaultLearningRate, 600},
             optimizer : {"Adam", "SGD", "RMSprop"}] :
        /\ a.pretrain \in Pretrains(a.model_name)
        \* options the selected mode never reads stay at their defaults
        /\ a.mode \in {<<"vis">>, <<"test">>} =>
              /\ a.model_name = Str_pointnet /\ a.pretrain = <<>>
        /\ a.mode # <<>> =>
              /\ a.epoch = ShortEpoch /\ a.optimizer = "Adam"
              /\ a.learning_rate = DefaultLearningRate
        \* SGD ignores --learning_rate
        /\ a.optimizer # "Adam" => a.learning_rate = DefaultLearningRate }

\* a run resumed from a checkpoint of epoch BigEpoch, one epoch long
BigArgv ==
    { [mode |-> <<>>, model_name |-> m, epoch |-> BigEpoch + 1,
       pretrain |-> <<PathJoin(CheckpointsDir(m),
                               FnPth(m, PretrainMeanIou, BigEpoch))>>,
       learning_rate |-> DefaultLearningRate, optimizer |-> "Adam"] :
      m \in ModelNames }

\* the long runs: 1.5e-5 falls below LEARNING_RATE_CLIP at the first halving
LongArgv ==
    { [mode |-> <<>>, model_name |-> Str_pointnet, epoch |-> LongEpoch,
       pretrain |-> <<>>, learning_rate |-> 1500, optimizer |-> "Adam"] }

\* parse_args(): --mode defaults to 'train', --pretrain to None
parse_args(av) ==
    [mode |-> IF av.mode = <<>> THEN "train" ELSE av.mode[1],
     model_name |-> av.model_name,
     epoch |-> av.epoch,
     pretrain |-> av.pretrain,
     learning_rate |-> av.learning_rate,
     optimizer |-> av.optimizer]

\* ------------------------------------------------------------------ state

VARIABLES
    argv,            \* the command line
    len_dataloader,  \* len(dataloader): training batches per epoch
    len_test_data,   \* len(test_data) in vis()
    chainable,       \* whether the installed StepLR multiplies the group's
                     \* current lr (newer torch) or recomputes it from base_lr
    args,            \* the namespace parse_args() returned
    pc,              \* the statement about to run
    error,           \* the uncaught exception that ended the process, or ""
    ran,             \* which of train, evaluate, vis have been entered
    optimizer,       \* train(): the local, <<>> while unbound
    param_groups,    \* optimizer.param_groups: the lr of each group
    base_lr,         \* the scheduler's base_lrs[0]
    last_epoch,      \* the scheduler's last_epoch
    loaded,          \* the paths torch.load has read, in order
    init_epoch,      \* train(): local
    next_epoch,      \* the position of range(init_epoch, args.epoch)
    epoch,           \* train(): the loop variable
    i,               \* train(): the index of the next batch of the epoch
    lr,              \* train(): local
    history,         \* history['loss']: one <<epoch, batch>> per loss appended
    best_acc,        \* train(): local
    best_meaniou,    \* train(): local
    test_metrics,    \* test_metrics['accuracy'] of the last test_semseg, or <<>>
    mean_iou,        \* np.mean(cat_mean_iou) of the last test_semseg, or <<>>
    save_model,      \* train(): local
    saved,           \* the checkpoints torch.save has written, in order
    frame,           \* vis(): the loop variable
    trace,           \* the steps taken in the current epoch or call, in order
    test_calls,      \* how many times test_semseg has been called
    sched_lr,        \* param_groups[0]['lr'] as scheduler.step() left it
    epochs_run,      \* the values the loop variable epoch has taken, in order
    max_seen_iou,    \* the largest mean IoU test_semseg has reported, or 0
    max_seen_acc,    \* the largest accuracy test_semseg has reported, or 0
    first_pos_epoch, \* the first epoch whose mean IoU was positive, or <<>>
    before_acc,      \* best_acc as the current epoch found it
    before_meaniou   \* best_meaniou as the current epoch found it

inputs == <<argv, len_dataloader, len_test_data, chainable>>

sched == <<optimizer, param_groups, base_lr, last_epoch, lr, sched_lr>>

loopv == <<init_epoch, next_epoch, epoch, epochs_run>>

bests == <<best_acc, best_meaniou, save_model, saved>>

evals == <<test_metrics, mean_iou, test_calls, max_seen_iou, max_seen_acc,
           first_pos_epoch>>

before == <<before_acc, before_meaniou>>

vars == <<inputs, args, pc, error, ran, sched, loaded, loopv, i, history,
          bests, evals, frame, trace, before>>

\* the state when the interpreter reaches `if __name__ == '__main__':`
InitWith(av) ==
    /\ argv = av
    \* only vis() walks over test_data
    /\ len_test_data \in IF av.mode = <<"vis">> THEN 0..MaxFrames ELSE {0}
    /\ chainable \in BOOLEAN
    /\ args = parse_args(av)
    /\ pc = "main"
    /\ error = ""
    /\ ran = {}
    /\ optimizer = <<>>
    /\ param_groups = <<>>
    /\ base_lr = 0
    /\ last_epoch = 0
    /\ loaded = <<>>
    /\ init_epoch = 0
    /\ next_epoch = 0
    /\ epoch = 0
    /\ i = 0
    /\ lr = 0
    /\ history = <<>>
    /\ best_acc = 0
    /\ best_meaniou = 0
    /\ test_metrics = <<>>
    /\ mean_iou = <<>>
    /\ save_model = FALSE
    /\ saved = <<>>
    /\ frame = 0
    /\ trace = <<>>
    /\ test_calls = 0
    /\ sched_lr = 0
    /\ epochs_run = <<>>
    /\ max_seen_iou = 0
    /\ max_seen_acc = 0
    /\ first_pos_epoch = <<>>
    /\ before_acc = 0
    /\ before_meaniou = 0

Init ==
    \/ \E av \in ShortArgv \cup BigArgv :
          /\ InitWith(av)
          /\ len_dataloader \in 0..MaxBatches
    \/ \E av \in LongArgv :
          /\ InitWith(av)
          /\ len_dataloader = 1

\* an uncaught exception: the traceback is printed and the process ends
Raise(e) ==
    /\ pc' = "crashed"
    /\ error' = e

Log(ev) == trace' = Append(trace, ev)

\* the element after p in the sequence s, or last when p is its last element
After(s, p, last) ==
    LET k == CHOOSE j \in 1..Len(s) : s[j] = p
    IN  IF k = Len(s) THEN last ELSE s[k + 1]

\* ------------------------------------------------------------ entry point

\* a variant of ModeIs: the last test is an unconditional else
ModeIsOrElse(a, literal) == a.mode = literal \/ literal = "vis"

\* args.mode == "<literal>"
ModeIs(a, literal) == a.mode = literal

\* if args.mode == "train": train(args)
MainIfTrain ==
    /\ pc = "main"
    /\ IF ModeIs(args, "train")
       THEN pc' = "train_setup" /\ ran' = ran \cup {"train"}
       ELSE pc' = "if_eval" /\ ran' = ran
    /\ UNCHANGED <<inputs, args, error, sched, loaded, loopv, i, history,
                   bests, evals, frame, trace,
                   before>>

\* if args.mode == "eval": evaluate(args)
MainIfEval ==
    /\ pc = "if_eval"
    /\ IF ModeIs(args, "eval")
       THEN pc' = "eval_setup" /\ ran' = ran \cup {"evaluate"}
       ELSE pc' = "if_vis" /\ ran' = ran
    /\ UNCHANGED <<inputs, args, error, sched, loaded, loopv, i, history,
                   bests, evals, frame, trace,
                   before>>

\* if args.mode == "vis": vis(args)
MainIfVis ==
    /\ pc = "if_vis"
    /\ IF ModeIs(args, "vis")
       THEN pc' = "vis_setup" /\ ran' = ran \cup {"vis"}
       ELSE pc' = "exit" /\ ran' = ran
    /\ UNCHANGED <<inputs, args, error, sched, loaded, loopv, i, history,
                   bests, evals, frame, trace,
                   before>>

\* ---------------------------------------------------------------- train()

\* a variant of OptimizerFor: the elif is an else
OptimizerForElseAdam(name) == IF name = "SGD" THEN <<"SGD">> ELSE <<"Adam">>

\* the optimizer the if/elif binds: <<name>>, or <<>> when neither branch runs
OptimizerFor(name) ==
    IF name = "SGD" THEN <<"SGD">>
    ELSE IF name = "Adam" THEN <<"Adam">>
    ELSE <<>>

\* the lr the optimizer is constructed with
ConstructedLr(a) == IF a.optimizer = "SGD" THEN SgdLr ELSE a.learning_rate

\* directories, data loaders, model, and the optimizer if/elif
TrainSetup ==
    /\ pc = "train_setup"
    /\ optimizer' = OptimizerFor(args.optimizer)
    /\ param_groups' = IF optimizer' = <<>> THEN <<>> ELSE <<ConstructedLr(args)>>
    /\ trace' = <<>>
    /\ pc' = "train_scheduler"
    /\ UNCHANGED <<inputs, args, error, ran, base_lr, last_epoch, lr, sched_lr,
                   loaded, loopv, i, history, bests, evals, frame,
                   before>>

\* scheduler = StepLR(optimizer, step_size=20, gamma=0.5), then DataParallel
TrainScheduler ==
    /\ pc = "train_scheduler"
    /\ IF optimizer = <<>>
       THEN /\ Raise("UnboundLocalError")
            /\ UNCHANGED <<base_lr, last_epoch>>
       ELSE /\ base_lr' = param_groups[1]
            /\ last_epoch' = 0
            /\ pc' = "train_pretrain"
            /\ error' = error
    /\ UNCHANGED <<inputs, args, ran, optimizer, param_groups, lr, sched_lr,
                   loaded, loopv, i, history, bests, evals, frame, trace,
                   before>>

\* if args.pretrain is not None: load it and read init_epoch off its name
TrainPretrain ==
    /\ pc = "train_pretrain"
    /\ IF args.pretrain # <<>>
       THEN \E found \in BOOLEAN :
              IF ~found
              THEN /\ Raise("FileNotFoundError")
                   /\ UNCHANGED <<loaded, init_epoch>>
              ELSE /\ loaded' = Append(loaded, args.pretrain[1])
                   /\ IF ParseInitEpoch(args.pretrain[1]) = <<>>
                      THEN /\ Raise("ValueError")
                           /\ UNCHANGED init_epoch
                      ELSE /\ init_epoch' = ParseInitEpoch(args.pretrain[1])[1]
                           /\ pc' = "train_init"
                           /\ error' = error
       ELSE /\ init_epoch' = 0
            /\ pc' = "train_init"
            /\ UNCHANGED <<loaded, error>>
    /\ UNCHANGED <<inputs, args, ran, sched, next_epoch, epoch, epochs_run, i,
                   history, bests, evals, frame, trace,
                   before>>

\* a variant of InitialBestMeanIou: a resumed run starts from the mean IoU in
\* the checkpoint's name
InitialBestFromPretrain(a) == IF a.pretrain = <<>> THEN 0 ELSE PretrainMeanIou

\* best_meaniou = 0
InitialBestMeanIou(a) == 0

\* best_acc = 0
InitialBestAcc(a) == 0

\* history, best_acc, best_meaniou, and the range the loop walks
TrainInit ==
    /\ pc = "train_init"
    /\ history' = <<>>
    /\ best_acc' = InitialBestAcc(args)
    /\ best_meaniou' = InitialBestMeanIou(args)
    /\ next_epoch' = init_epoch
    /\ pc' = "loop_head"
    /\ UNCHANGED <<inputs, args, error, ran, sched, loaded, init_epoch, epoch,
                   epochs_run, i, save_model, saved, evals, frame, trace,
                   before>>

\* the statements of one epoch, in program order
EpochSteps ==
    <<"scheduler_step", "clip_lr", "batches", "test_semseg", "decide", "save",
      "report">>

\* a variant of BatchSteps: the optimizer steps before the backward pass
BatchStepsStepFirst ==
    <<"zero_grad", "forward", "loss", "append_loss", "optimizer_step",
      "backward">>

\* the statements of one training batch, in program order
BatchSteps ==
    <<"zero_grad", "forward", "loss", "append_loss", "backward",
      "optimizer_step">>

\* a variant of LoopContinues: the stop value is included
LoopContinuesInclusive(e, stop) == e <= stop

\* range(init_epoch, args.epoch) yields e
LoopContinues(e, stop) == e < stop

\* for epoch in range(init_epoch, args.epoch): the next epoch, or return.
\* When an epoch begins, test_metrics and mean_iou are dead (they are
\* reassigned before they are next read), so they are cleared.
LoopHead ==
    /\ pc = "loop_head"
    /\ IF LoopContinues(next_epoch, args.epoch)
       THEN /\ epoch' = next_epoch
            /\ next_epoch' = next_epoch + 1
            /\ epochs_run' = Append(epochs_run, next_epoch)
            /\ trace' = <<>>
            /\ test_metrics' = <<>>
            /\ mean_iou' = <<>>
            /\ before_acc' = best_acc
            /\ before_meaniou' = best_meaniou
            /\ pc' = EpochSteps[1]
       ELSE /\ pc' = "if_eval"
            /\ UNCHANGED <<epoch, next_epoch, epochs_run, trace, test_metrics,
                           mean_iou, before>>
    /\ UNCHANGED <<inputs, args, error, ran, sched, loaded, init_epoch, i,
                   history, bests, test_calls, max_seen_iou, max_seen_acc,
                   first_pos_epoch, frame>>

Halve(x) == x \div 2

RECURSIVE HalveTimes(_, _)
HalveTimes(x, n) == IF n = 0 THEN x ELSE HalveTimes(Halve(x), n - 1)

\* StepLR.get_lr() with gamma = 0.5, after last_epoch was advanced to le
StepLRGetLr(cur, base, le) ==
    IF chainable
    THEN IF le % StepSize = 0 THEN Halve(cur) ELSE cur
    ELSE HalveTimes(base, le \div StepSize)

\* scheduler.step()
SchedulerStep ==
    /\ pc = "scheduler_step"
    /\ last_epoch' = last_epoch + 1
    /\ param_groups' = [g \in DOMAIN param_groups |->
                           StepLRGetLr(param_groups[g], base_lr, last_epoch')]
    /\ sched_lr' = param_groups'[1]
    /\ Log("scheduler_step")
    /\ pc' = After(EpochSteps, "scheduler_step", "loop_head")
    /\ UNCHANGED <<inputs, args, error, ran, optimizer, base_lr, lr, loaded,
                   loopv, i, history, bests, evals, frame,
                   before>>

\* a variant of ClippedLr: min for max
ClippedLrMin(x) == IF x <= LEARNING_RATE_CLIP THEN x ELSE LEARNING_RATE_CLIP

\* max(optimizer.param_groups[0]['lr'], LEARNING_RATE_CLIP)
ClippedLr(x) == Max(x, LEARNING_RATE_CLIP)

\* lr = max(...); every param_group['lr'] = lr; the batch iterator is created
ClipLr ==
    /\ pc = "clip_lr"
    /\ lr' = ClippedLr(param_groups[1])
    /\ param_groups' = [g \in DOMAIN param_groups |-> lr']
    /\ i' = 0
    /\ Log("clip_lr")
    /\ pc' = After(EpochSteps, "clip_lr", "loop_head")
    /\ UNCHANGED <<inputs, args, error, ran, optimizer, base_lr, last_epoch,
                   sched_lr, loaded, loopv, history, bests, evals, frame,
                   before>>

\* for i, data in enumerate(dataloader, 0): the next batch, or the loop's end
BatchHead ==
    /\ pc = "batches"
    /\ pc' = IF i < len_dataloader THEN BatchSteps[1]
             ELSE After(EpochSteps, "batches", "loop_head")
    /\ UNCHANGED <<inputs, args, error, ran, sched, loaded, loopv, i, history,
                   bests, evals, frame, trace,
                   before>>

\* one statement of the batch body; the last one ends batch i
BatchStep(name) ==
    /\ pc = name
    /\ Log(name)
    /\ pc' = After(BatchSteps, name, "batches")
    /\ i' = IF pc' = "batches" THEN i + 1 ELSE i
    /\ history' = IF name = "append_loss" THEN Append(history, <<epoch, i>>)
                  ELSE history
    /\ UNCHANGED <<inputs, args, error, ran, sched, loaded, loopv, bests, evals,
                   frame,
                   before>>

\* optimizer.zero_grad()
ZeroGrad == BatchStep("zero_grad")

\* model = model.train(); pred = model(points)
Forward == BatchStep("forward")

\* loss = F.nll_loss(pred, target), plus the regularizer for pointnet
Loss == BatchStep("loss")

\* history['loss'].append(loss.cpu().data.numpy())
AppendLoss == BatchStep("append_loss")

\* loss.backward()
Backward == BatchStep("backward")

\* optimizer.step()
OptimizerStep == BatchStep("optimizer_step")

\* test_metrics, cat_mean_iou = test_semseg(...); mean_iou = np.mean(...)
TestSemseg ==
    /\ pc = "test_semseg"
    /\ \E acc \in AccuracyValues, miou \in MeanIouValues :
          /\ test_metrics' = <<acc>>
          /\ mean_iou' = <<miou>>
          /\ max_seen_acc' = Max(max_seen_acc, acc)
          /\ max_seen_iou' = Max(max_seen_iou, miou)
          /\ first_pos_epoch' = IF first_pos_epoch = <<>> /\ miou > 0
                                THEN <<epoch>> ELSE first_pos_epoch
    /\ test_calls' = test_calls + 1
    /\ Log("test_semseg")
    /\ pc' = After(EpochSteps, "test_semseg", "loop_head")
    /\ UNCHANGED <<inputs, args, error, ran, sched, loaded, loopv, i, history,
                   bests, frame,
                   before>>

\* test_metrics['accuracy'] > best_acc
ImprovesAcc(acc, best) == acc > best

\* a variant of ImprovesMeanIou: a tie counts as an improvement
ImprovesMeanIouOrTies(miou, best) == miou >= best

\* mean_iou > best_meaniou
ImprovesMeanIou(miou, best) == miou > best

\* save_model = False; update best_acc; update best_meaniou and set save_model
Decide ==
    /\ pc = "decide"
    /\ best_acc' = IF ImprovesAcc(test_metrics[1], best_acc)
                   THEN test_metrics[1] ELSE best_acc
    /\ best_meaniou' = IF ImprovesMeanIou(mean_iou[1], best_meaniou)
                       THEN mean_iou[1] ELSE best_meaniou
    /\ save_model' = ImprovesMeanIou(mean_iou[1], best_meaniou)
    /\ Log("decide")
    /\ pc' = After(EpochSteps, "decide", "loop_head")
    /\ UNCHANGED <<inputs, args, error, ran, sched, loaded, loopv, i, history,
                   saved, evals, frame,
                   before>>

\* the checkpoint torch.save writes: its file name, its path, and the epoch
\* and mean IoU of the state it holds
Checkpoint(model_name, meaniou, e) ==
    [fn |-> FnPth(model_name, meaniou, e),
     path |-> PathJoin(CheckpointsDir(model_name), FnPth(model_name, meaniou, e)),
     epoch |-> e,
     meaniou |-> meaniou]

\* if save_model: torch.save(...) else: log 'No need to save model'
Save ==
    /\ pc = "save"
    /\ IF save_model
       THEN /\ saved' = Append(saved,
                               Checkpoint(args.model_name, best_meaniou, epoch))
            /\ Log("torch_save")
       ELSE /\ saved' = saved
            /\ Log("no_save")
    /\ pc' = After(EpochSteps, "save", "loop_head")
    /\ UNCHANGED <<inputs, args, error, ran, sched, loaded, loopv, i, history,
                   best_acc, best_meaniou, save_model, evals, frame,
                   before>>

\* log.warn('Curr', ...); log.warn('Best', ...)
Report ==
    /\ pc = "report"
    /\ Log("report")
    /\ pc' = After(EpochSteps, "report", "loop_head")
    /\ UNCHANGED <<inputs, args, error, ran, sched, loaded, loopv, i, history,
                   bests, evals, frame,
                   before>>

\* ------------------------------------------------------------- evaluate()

\* the test loader, the model, DataParallel
EvalSetup ==
    /\ pc = "eval_setup"
    /\ trace' = <<>>
    /\ pc' = "eval_check"
    /\ UNCHANGED <<inputs, args, error, ran, sched, loaded, loopv, i, history,
                   bests, evals, frame,
                   before>>

\* a variant of PretrainIsNone: tests for the empty string instead of None
PretrainIsEmpty(a) == a.pretrain = << <<>> >>

\* args.pretrain is None
PretrainIsNone(a) == a.pretrain = <<>>

\* if args.pretrain is None: log.err('No pretrain model'); return
EvalCheck ==
    /\ pc = "eval_check"
    /\ IF PretrainIsNone(args)
       THEN /\ Log("log_err")
            /\ pc' = "if_vis"
       ELSE /\ trace' = trace
            /\ pc' = "eval_load"
    /\ UNCHANGED <<inputs, args, error, ran, sched, loaded, loopv, i, history,
                   bests, evals, frame,
                   before>>

\* checkpoint = torch.load(args.pretrain); model.load_state_dict(checkpoint)
EvalLoad ==
    /\ pc = "eval_load"
    /\ \E found \in BOOLEAN :
          IF found /\ args.pretrain # <<>>
          THEN /\ loaded' = Append(loaded, args.pretrain[1])
               /\ Log("torch_load")
               /\ pc' = "eval_test"
               /\ error' = error
          ELSE /\ Raise(IF args.pretrain = <<>> THEN "AttributeError"
                        ELSE "FileNotFoundError")
               /\ UNCHANGED <<loaded, trace>>
    /\ UNCHANGED <<inputs, args, ran, sched, loopv, i, history, bests, evals,
                   frame,
                   before>>

\* test_metrics, cat_mean_iou = test_semseg(...); mean_iou = np.mean(...)
EvalTest ==
    /\ pc = "eval_test"
    /\ \E acc \in AccuracyValues, miou \in MeanIouValues :
          /\ test_metrics' = <<acc>>
          /\ mean_iou' = <<miou>>
    /\ test_calls' = test_calls + 1
    /\ Log("test_semseg")
    /\ pc' = "eval_report"
    /\ UNCHANGED <<inputs, args, error, ran, sched, loaded, loopv, i, history,
                   bests, max_seen_iou, max_seen_acc, first_pos_epoch, frame,
                   before>>

\* log.info(Test_accuracy=..., Test_meanIOU=...); log.warn(...)
EvalReport ==
    /\ pc = "eval_report"
    /\ Log("report")
    /\ pc' = "if_vis"
    /\ UNCHANGED <<inputs, args, error, ran, sched, loaded, loopv, i, history,
                   bests, evals, frame,
                   before>>

\* ------------------------------------------------------------------ vis()

\* args = parse_args(), with model_name and pretrain overwritten
VisArgs(av) ==
    [parse_args(av) EXCEPT !.model_name = Str_pointnet2,
                           !.pretrain = <<VisPretrain>>]

\* the arguments, the test data, the model
VisSetup ==
    /\ pc = "vis_setup"
    /\ args' = VisArgs(argv)
    /\ trace' = <<>>
    /\ pc' = "vis_load"
    /\ UNCHANGED <<inputs, error, ran, sched, loaded, loopv, i, history, bests,
                   evals, frame,
                   before>>

\* torch.load(args.pretrain), model.eval(), the visualizer window
VisLoad ==
    /\ pc = "vis_load"
    /\ \E found \in BOOLEAN :
          IF found
          THEN /\ loaded' = Append(loaded, args.pretrain[1])
               /\ Log("torch_load")
               /\ frame' = 0
               /\ pc' = "vis_frame"
               /\ error' = error
          ELSE /\ Raise("FileNotFoundError")
               /\ UNCHANGED <<loaded, trace, frame>>
    /\ UNCHANGED <<inputs, args, ran, sched, loopv, i, history, bests, evals,
                   before>>

\* for i in range(len(test_data)): predict and draw one scan; the space key
\* callback calls exit()
VisFrame ==
    /\ pc = "vis_frame"
    /\ IF frame < len_test_data
       THEN \E space \in BOOLEAN :
               /\ frame' = frame + 1
               /\ Log("frame")
               /\ pc' = IF space THEN "exit" ELSE "vis_frame"
       ELSE /\ pc' = "exit"
            /\ UNCHANGED <<frame, trace>>
    /\ UNCHANGED <<inputs, args, error, ran, sched, loaded, loopv, i, history,
                   bests, evals,
                   before>>

\* ------------------------------------------------------- the specification

Next ==
    \/ MainIfTrain
    \/ MainIfEval
    \/ MainIfVis
    \/ TrainSetup
    \/ TrainScheduler
    \/ TrainPretrain
    \/ TrainInit
    \/ LoopHead
    \/ SchedulerStep
    \/ ClipLr
    \/ BatchHead
    \/ ZeroGrad
    \/ Forward
    \/ Loss
    \/ AppendLoss
    \/ Backward
    \/ OptimizerStep
    \/ TestSemseg
    \/ Decide
    \/ Save
    \/ Report
    \/ EvalSetup
    \/ EvalCheck
    \/ EvalLoad
    \/ EvalTest
    \/ EvalReport
    \/ VisSetup
    \/ VisLoad
    \/ VisFrame

Spec == Init /\ [][Next]_vars

\* the same machine, with every enabled step eventually taken: the
\* interpreter runs the program to its end
FairSpec == Init /\ [][Next]_vars /\ WF_vars(Next)

\* ------------------------------------------------------------- properties

EpochPcs ==
    {"scheduler_step", "clip_lr", "batches", "zero_grad", "forward", "loss",
     "append_loss", "backward", "optimizer_step", "test_semseg", "decide",
     "save", "report"}

BatchPcs ==
    {"batches", "zero_grad", "forward", "loss", "append_loss", "backward",
     "optimizer_step"}

\* train() has returned to the entry point
TrainReturned == "train" \in ran /\ pc \in {"if_eval", "if_vis", "exit"}

\* evaluate() has returned to the entry point
EvalReturned == "evaluate" \in ran /\ pc \in {"if_vis", "exit"}

\* train() stands between two epochs, or has returned
EpochEnded == "train" \in ran /\ pc \in {"loop_head", "if_eval", "if_vis", "exit"}

\* a checkpoint was written in the current epoch
SavedThisEpoch == \E k \in 1..Len(saved) : saved[k].epoch = epoch

IsPrefix(s, t) == Len(s) <= Len(t) /\ s = SubSeq(t, 1, Len(s))

Last(s) == s[Len(s)]

\* C1: at the end of every epoch a checkpoint of that epoch has been written
\* if and only if the epoch's mean IoU is strictly greater than best_meaniou
\* as the epoch found it (0 in the first epoch); a checkpoint is written at
\* no other point; after every epoch best_meaniou is the maximum of 0 and the
\* mean IoUs seen so far and best_acc the maximum of 0 and the accuracies
\* seen so far.
C1_SaveIffMeanIouImproves ==
    /\ pc = "report" =>
          /\ SavedThisEpoch <=> mean_iou[1] > before_meaniou
          /\ Len(saved) <= Len(epochs_run)
    /\ pc \in EpochPcs \ {"report"} =>
          ~ \E k \in 1..Len(saved) : saved[k].epoch = epoch
    /\ pc \in {"save", "report"} \/ EpochEnded =>
          /\ best_meaniou = max_seen_iou
          /\ best_acc = max_seen_acc
    /\ "train" \in ran /\ epochs_run = <<>> =>
          before_meaniou = 0 /\ best_meaniou = 0 /\ best_acc = 0 /\ saved = <<>>

\* an epoch in which the accuracy improved, the mean IoU did not, and no
\* checkpoint was written, after an earlier epoch wrote one
C1_Witness ==
    /\ pc = "report"
    /\ best_acc > before_acc
    /\ before_acc > 0
    /\ mean_iou[1] > 0
    /\ mean_iou[1] <= before_meaniou
    /\ saved # <<>>
    /\ ~SavedThisEpoch

\* C2: the loop variable takes the values init_epoch, init_epoch + 1, ... in
\* ascending order, all below args.epoch; when train() returns it has run
\* exactly max(0, args.epoch - init_epoch) epochs; init_epoch is 0 without
\* --pretrain; when init_epoch >= args.epoch there is no training batch, no
\* evaluation and no checkpoint; and once train() has set up its loop it
\* returns.
C2_Safety ==
    /\ \A k \in 1..Len(epochs_run) :
          epochs_run[k] = init_epoch + k - 1 /\ epochs_run[k] < args.epoch
    /\ TrainReturned =>
          Len(epochs_run) = Max(0, args.epoch - init_epoch)
    /\ "train" \in ran /\ args.pretrain = <<>> => init_epoch = 0
    /\ ( /\ "train" \in ran
         /\ pc \notin {"train_setup", "train_scheduler", "train_pretrain",
                       "crashed"}
         /\ init_epoch >= args.epoch )
       => ( /\ epochs_run = <<>> /\ history = <<>>
            /\ test_calls = 0 /\ saved = <<>> )

C2_EpochCount ==
    /\ []C2_Safety
    /\ (pc = "train_init") ~> TrainReturned

\* train() has returned after a resumed run of one epoch, after a run of
\* ShortEpoch epochs, or after a run resumed beyond args.epoch
C2_Witness ==
    /\ TrainReturned
    /\ \/ init_epoch > 0 /\ epochs_run = <<init_epoch>>
       \/ init_epoch = 0 /\ Len(epochs_run) = ShortEpoch
       \/ init_epoch > args.epoch /\ loaded # <<>>

\* C3: evaluate() without --pretrain logs the error and returns: it never
\* reaches torch.load or test_semseg and reports nothing; with --pretrain it
\* loads the checkpoint, then runs test_semseg once, then reports.
C3_EvaluateNeedsPretrain ==
    "evaluate" \in ran =>
       /\ args.pretrain = <<>> =>
             /\ pc \in {"eval_setup", "eval_check", "if_vis", "exit"}
             /\ loaded = <<>>
             /\ test_calls = 0
             /\ IsPrefix(trace, <<"log_err">>)
             /\ EvalReturned => trace = <<"log_err">>
       /\ args.pretrain # <<>> =>
             /\ IsPrefix(trace, <<"torch_load", "test_semseg", "report">>)
             /\ test_calls = (IF Len(trace) >= 2 THEN 1 ELSE 0)
             /\ loaded = (IF Len(trace) >= 1 THEN <<args.pretrain[1]>> ELSE <<>>)
             /\ EvalReturned => Len(trace) = 3
       /\ history = <<>>
       /\ saved = <<>>

\* evaluate() has returned without a pretrained model
C3_Witness ==
    /\ EvalReturned
    /\ args.pretrain = <<>>
    /\ trace = <<"log_err">>

\* C4: at most one of train, evaluate and vis is entered; 'train' (also the
\* default) enters only train, 'eval' only evaluate, 'vis' only vis, and any
\* other mode enters none and exits with nothing trained, evaluated or saved.
C4_OneModePerRun ==
    /\ Cardinality(ran) <= 1
    /\ argv.mode = <<>> => args.mode = "train"
    /\ argv.mode # <<>> => args.mode = argv.mode[1]
    /\ args.mode = "train" => ran \subseteq {"train"}
    /\ args.mode = "eval" => ran \subseteq {"evaluate"}
    /\ args.mode = "vis" => ran \subseteq {"vis"}
    /\ args.mode \notin {"train", "eval", "vis"} =>
          /\ ran = {}
          /\ pc \in {"main", "if_eval", "if_vis", "exit"}
          /\ history = <<>> /\ test_calls = 0 /\ saved = <<>> /\ loaded = <<>>
    /\ pc = "exit" =>
          /\ args.mode = "train" => ran = {"train"}
          /\ args.mode = "eval" => ran = {"evaluate"}
          /\ args.mode = "vis" => ran = {"vis"}

\* the default mode has run train() to its end
C4_Witness ==
    /\ pc = "exit"
    /\ argv.mode = <<>>
    /\ ran = {"train"}
    /\ epochs_run # <<>>

\* C5: while the batches of an epoch run, every parameter group's lr is the
\* larger of LEARNING_RATE_CLIP and the first group's lr as scheduler.step()
\* left it, so it is never below LEARNING_RATE_CLIP.
C5_TrainingLrClipped ==
    pc \in BatchPcs =>
       /\ param_groups # <<>>
       /\ \A g \in DOMAIN param_groups :
             /\ param_groups[g] = (IF sched_lr >= LEARNING_RATE_CLIP
                                   THEN sched_lr ELSE LEARNING_RATE_CLIP)
             /\ param_groups[g] >= LEARNING_RATE_CLIP
       /\ lr = param_groups[1]

\* a batch runs after a StepLR halving took the lr below the clip
C5_Witness ==
    /\ pc = "backward"
    /\ last_epoch >= StepSize
    /\ sched_lr < LEARNING_RATE_CLIP
    /\ sched_lr < base_lr
    /\ param_groups = <<LEARNING_RATE_CLIP>>

\* C6: the checkpoints of a run have strictly increasing epochs and strictly
\* increasing mean IoUs, no two of them share a file name or a path, and
\* between epochs the last one written holds the highest mean IoU seen.
C6_CheckpointsDistinct ==
    /\ \A a, b \in 1..Len(saved) :
          a < b =>
             /\ saved[a].epoch < saved[b].epoch
             /\ saved[a].meaniou < saved[b].meaniou
             /\ saved[a].fn # saved[b].fn
             /\ saved[a].path # saved[b].path
    /\ EpochEnded /\ saved # <<>> => Last(saved).meaniou = max_seen_iou
    /\ EpochEnded /\ saved = <<>> => max_seen_iou = 0

\* two checkpoints whose mean IoUs print alike, told apart by the epoch field
C6_Witness ==
    /\ Len(saved) = 2
    /\ Format5f(saved[1].meaniou) = Format5f(saved[2].meaniou)
    /\ saved[1].fn # saved[2].fn
    /\ TrainReturned

\* the trace of one full epoch with n batches that ends in the save step x
EpochTrace(n, x) ==
    <<"scheduler_step", "clip_lr">>
    \o [k \in 1..(6 * n) |->
           <<"zero_grad", "forward", "loss", "append_loss", "backward",
             "optimizer_step">>[((k - 1) % 6) + 1]]
    \o <<"test_semseg", "decide", x, "report">>

\* how many times ev occurs in s
Count(s, ev) == Cardinality({k \in 1..Len(s) : s[k] = ev})

\* C7: the steps of an epoch run in the order scheduler step, lr clipping,
\* the batches (each zero_grad, forward, loss, append, backward, optimizer
\* step), one evaluation, the save decision, the save; each batch appends one
\* loss to the history, and each epoch runs test_semseg once.
C7_EpochStepOrder ==
    /\ pc \in EpochPcs =>
          /\ \E x \in {"torch_save", "no_save"} :
                IsPrefix(trace, EpochTrace(len_dataloader, x))
          /\ Len(history) = (Len(epochs_run) - 1) * len_dataloader
                               + Count(trace, "append_loss")
          /\ test_calls = (Len(epochs_run) - 1) + Count(trace, "test_semseg")
          /\ pc = "test_semseg" => Count(trace, "optimizer_step") = len_dataloader
          /\ pc = "decide" => mean_iou # <<>> /\ test_metrics # <<>>
          /\ pc \in BatchPcs =>
                /\ i = Count(trace, "optimizer_step")
                /\ mean_iou = <<>>
    /\ EpochEnded =>
          /\ Len(history) = Len(epochs_run) * len_dataloader
          /\ test_calls = Len(epochs_run)
          /\ epochs_run # <<>> =>
                \E x \in {"torch_save", "no_save"} :
                   trace = EpochTrace(len_dataloader, x)

\* the second epoch of a run with MaxBatches batches has written a checkpoint
C7_Witness ==
    /\ pc = "report"
    /\ len_dataloader = MaxBatches
    /\ Len(epochs_run) = 2
    /\ Len(history) = 2 * MaxBatches
    /\ trace[Len(trace)] = "torch_save"

\* C8: the path of every checkpoint train() writes at epoch e, given back as
\* --pretrain, is parsed to init_epoch = e; and a run resumed from a
\* checkpoint train() wrote at epoch e starts at epoch e.
C8_ResumeEpochRoundTrip ==
    /\ \A k \in 1..Len(saved) :
          /\ ParseInitEpoch(saved[k].path) = <<saved[k].epoch>>
          /\ ParseInitEpoch(saved[k].fn) = <<saved[k].epoch>>
    /\ \A m \in ModelNames, e \in {ShortEpoch - 1, BigEpoch} :
          ( /\ "train" \in ran
            /\ args.pretrain = <<PathJoin(CheckpointsDir(m),
                                          FnPth(m, PretrainMeanIou, e))>>
            /\ (pc \in {"train_init", "loop_head"} \cup EpochPcs \/ TrainReturned) )
          => ( /\ init_epoch = e
               /\ (epochs_run # <<>> => epochs_run[1] = e) )

\* a run resumed at a five-digit epoch, under a model name that holds '-',
\* has written a checkpoint
C8_Witness ==
    /\ args.model_name = Str_pointnet2_msg
    /\ init_epoch = BigEpoch
    /\ Len(saved) = 1
    /\ saved[1].epoch = BigEpoch
    /\ Len(Format04d(saved[1].epoch)) = 5

\* C9: a run resumed from a checkpoint starts with best_meaniou = 0 and
\* best_acc = 0, so the first epoch whose mean IoU is positive writes a
\* checkpoint, whatever the mean IoU in the loaded checkpoint's name.
C9_ResumeForgetsBest ==
    "train" \in ran /\ args.pretrain # <<>> =>
       /\ pc = "loop_head" /\ epochs_run = <<>> =>
             best_meaniou = 0 /\ best_acc = 0
       /\ first_pos_epoch # <<>> /\ (pc = "report" \/ EpochEnded) =>
             /\ saved # <<>>
             /\ saved[1].epoch = first_pos_epoch[1]

\* a resumed run has written a checkpoint whose mean IoU is below that of the
\* checkpoint it was started from
C9_Witness ==
    /\ TrainReturned
    /\ args.pretrain =
          <<PathJoin(CheckpointsDir(args.model_name),
                     FnPth(args.model_name, PretrainMeanIou, ShortEpoch - 1))>>
    /\ saved # <<>>
    /\ saved[1].meaniou < PretrainMeanIou
    /\ saved[1].epoch = init_epoch

\* C10: the optimizer is bound exactly for 'SGD' and 'Adam'; with any other
\* value train() ends at the scheduler's construction with the unbound local,
\* before any checkpoint is loaded, any batch is run or anything is saved.
C10_UnknownOptimizerFails ==
    "train" \in ran =>
       /\ optimizer # <<>> => args.optimizer \in {"SGD", "Adam"}
       /\ args.optimizer \in {"SGD", "Adam"} /\ pc # "train_setup" =>
             optimizer = <<args.optimizer>>
       /\ args.optimizer \notin {"SGD", "Adam"} =>
             /\ pc \in {"train_setup", "train_scheduler", "crashed"}
             /\ pc = "crashed" => error = "UnboundLocalError"
             /\ loaded = <<>>
             /\ epochs_run = <<>>
             /\ history = <<>>
             /\ test_calls = 0
             /\ saved = <<>>

\* train() has failed on an unknown optimizer although --pretrain was given
C10_Witness ==
    /\ pc = "crashed"
    /\ error = "UnboundLocalError"
    /\ args.optimizer = "RMSprop"
    /\ args.pretrain # <<>>
    /\ "train" \in ran

====
